---- MODULE Spec2Model ----
(***************************************************************************)
(* A model of the 2048 game of this repository: the pure board functions   *)
(* of boardUtils.ts (slideRowLeft, reverseRow, transposeBoard, the four    *)
(* moves, addRandomTile, hasWon, hasLost) and the Game component's state   *)
(* machine (initGame, handleMove), initializeBoard stepped through its     *)
(* loop, the board functions on a heap of arrays (which array each         *)
(* operation writes), and the suggest-move route (POST).                   *)
(*                                                                         *)
(* Conventions.  A Cell is a number; the empty cell (null in the source)   *)
(* is 0, which no tile value equals.  A row is a sequence of cells, a      *)
(* board a sequence of rows; the source's 0-based index i is i + 1 here.   *)
(* The board [] of useState<Board>([]) is the empty sequence.              *)
(***************************************************************************)
EXTENDS Integers, Sequences, FiniteSets

VARIABLES
    board,          \* Game: const [board, setBoard] = useState<Board>([])
    gameStatus,     \* Game: const [gameStatus, setGameStatus] = useState('playing')
    aiSuggestion,   \* Game: const [aiSuggestion, setAiSuggestion] = useState(null)
    aiError,        \* Game: const [aiError, setAiError] = useState('')
    steps,          \* number of input events handled so far in this run
    call,           \* the last call made: its name, arguments, locals and result
    isLoadingAI,    \* Game: const [isLoadingAI, setIsLoadingAI] = useState(false)
    fetchRequest,   \* Game: the fetch of getAISuggestion and the board it sent
    capturedStatus, \* Game: the gameStatus in the closure of handleMove
    showApiKeyInput \* Game: const [showApiKeyInput, setShowApiKeyInput] = useState(false)

vars == <<board, gameStatus, aiSuggestion, aiError, steps, call,
          isLoadingAI, fetchRequest, capturedStatus, showApiKeyInput>>

\* No fetch was made yet.
NoRequest == [inFlight |-> FALSE, board |-> <<>>, sent |-> 0]

----------------------------------------------------------------------------
(* Program constants                                                       *)

BOARD_ROWS == 4

BOARD_COLS == 4

null == 0

WinTile == 2048

Directions == {"left", "right", "up", "down"}

----------------------------------------------------------------------------
(* Bounds of the model                                                     *)

\* Largest exponent e of a tile 2^e in the rows given to slideRowLeft.
RowMaxExp == 3

\* Number of cells in which an input board may differ from a base board.
MaxEdits == 2

\* Number of input events (New Game, direction inputs) in one run.
MaxSteps == 2

\* Non-square boards have at most RectMaxCells cells.
RectMaxCells == 6

\* Number of fetches getAISuggestion makes in one run.
MaxRequests == 1

----------------------------------------------------------------------------
(* slideRowLeft                                                            *)

nonEmptyOf(row) == SelectSeq(row, LAMBDA cell : cell # null)

\* A merge loop in which the tile produced by a merge is compared again with
\* the tile that follows it (2,2,2,2 chains into 8).
RECURSIVE mergeLoopChained(_, _, _, _)
mergeLoopChained(nonEmpty, i, result, changed) ==
    IF i > Len(nonEmpty) THEN [result |-> result, changed |-> changed]
    ELSE LET current == nonEmpty[i]
             hasNext == i + 1 <= Len(nonEmpty)
         IN  IF hasNext /\ current = nonEmpty[i + 1] /\ current # null
             THEN mergeLoopChained([nonEmpty EXCEPT ![i + 1] = current * 2],
                                   i + 1, result, TRUE)
             ELSE mergeLoopChained(nonEmpty, i + 1, Append(result, current), changed)

\* A merge loop that keeps the value of a merged pair instead of doubling it.
RECURSIVE mergeLoopNoDouble(_, _, _, _)
mergeLoopNoDouble(nonEmpty, i, result, changed) ==
    IF i > Len(nonEmpty) THEN [result |-> result, changed |-> changed]
    ELSE LET current == nonEmpty[i]
             hasNext == i + 1 <= Len(nonEmpty)
         IN  IF hasNext /\ current = nonEmpty[i + 1] /\ current # null
             THEN mergeLoopNoDouble(nonEmpty, i + 2, Append(result, current), TRUE)
             ELSE mergeLoopNoDouble(nonEmpty, i + 1, Append(result, current), changed)

\* A merge loop that adds 2 to the value of a merged pair.
RECURSIVE mergeLoopAddTwo(_, _, _, _)
mergeLoopAddTwo(nonEmpty, i, result, changed) ==
    IF i > Len(nonEmpty) THEN [result |-> result, changed |-> changed]
    ELSE LET current == nonEmpty[i]
             hasNext == i + 1 <= Len(nonEmpty)
         IN  IF hasNext /\ current = nonEmpty[i + 1] /\ current # null
             THEN mergeLoopAddTwo(nonEmpty, i + 2, Append(result, current + 2), TRUE)
             ELSE mergeLoopAddTwo(nonEmpty, i + 1, Append(result, current), changed)

\* A merge loop that goes on from the second tile of a merged pair instead
\* of skipping it (2,2,2,2 becomes 4,4,4,2).
RECURSIVE mergeLoopKeepingSecond(_, _, _, _)
mergeLoopKeepingSecond(nonEmpty, i, result, changed) ==
    IF i > Len(nonEmpty) THEN [result |-> result, changed |-> changed]
    ELSE LET current == nonEmpty[i]
             hasNext == i + 1 <= Len(nonEmpty)
         IN  IF hasNext /\ current = nonEmpty[i + 1] /\ current # null
             THEN mergeLoopKeepingSecond(nonEmpty, i + 1, Append(result, current * 2), TRUE)
             ELSE mergeLoopKeepingSecond(nonEmpty, i + 1, Append(result, current), changed)

\* The while loop over nonEmpty: i is the source's i + 1.
RECURSIVE mergeLoop(_, _, _, _)
mergeLoop(nonEmpty, i, result, changed) ==
    IF i > Len(nonEmpty) THEN [result |-> result, changed |-> changed]
    ELSE LET current == nonEmpty[i]
             hasNext == i + 1 <= Len(nonEmpty)
         IN  IF hasNext /\ current = nonEmpty[i + 1] /\ current # null
             THEN mergeLoop(nonEmpty, i + 2, Append(result, current * 2), TRUE)
             ELSE mergeLoop(nonEmpty, i + 1, Append(result, current), changed)

\* while (result.length < row.length) result.push(null)
padNulls(result, length) ==
    result \o [k \in 1..(length - Len(result)) |-> null]

\* A slide that reports a change only when a merge occurred (the positional
\* comparison of lines 72-74 left out).
slideRowLeftMergeOnly(row) ==
    LET merged == mergeLoop(nonEmptyOf(row), 1, <<>>, FALSE)
    IN  [row |-> padNulls(merged.result, Len(row)), changed |-> merged.changed]

slideRowLeft(row) ==
    LET merged == mergeLoop(nonEmptyOf(row), 1, <<>>, FALSE)
        result == padNulls(merged.result, Len(row))
        changed == IF ~merged.changed
                   THEN \E idx \in 1..Len(row) : row[idx] # result[idx]
                   ELSE TRUE
    IN  [row |-> result, changed |-> changed]

----------------------------------------------------------------------------
(* reverseRow, transposeBoard                                              *)

reverseRow(row) == [k \in 1..Len(row) |-> row[Len(row) + 1 - k]]

transposeBoard(b) ==
    [col \in 1..BOARD_COLS |-> [row \in 1..BOARD_ROWS |-> b[row][col]]]

----------------------------------------------------------------------------
(* The moves                                                               *)

\* A move left whose flag is the one of the last row slid.
moveLeftLastRowFlag(b) ==
    LET slid == [k \in 1..Len(b) |-> slideRowLeft(b[k])]
    IN  [newBoard |-> [k \in 1..Len(b) |-> slid[k].row],
         changed |-> slid[Len(b)].changed]

moveLeft(b) ==
    LET slid == [k \in 1..Len(b) |-> slideRowLeft(b[k])]
    IN  [newBoard |-> [k \in 1..Len(b) |-> slid[k].row],
         changed |-> \E k \in 1..Len(b) : slid[k].changed]

moveRight(b) ==
    LET slid == [k \in 1..Len(b) |-> slideRowLeft(reverseRow(b[k]))]
    IN  [newBoard |-> [k \in 1..Len(b) |-> reverseRow(slid[k].row)],
         changed |-> \E k \in 1..Len(b) : slid[k].changed]

moveUp(b) ==
    LET moved == moveLeft(transposeBoard(b))
    IN  [newBoard |-> transposeBoard(moved.newBoard), changed |-> moved.changed]

\* A move down that slides the transposed board left instead of right.
moveDownSlidingLeft(b) ==
    LET moved == moveLeft(transposeBoard(b))
    IN  [newBoard |-> transposeBoard(moved.newBoard), changed |-> moved.changed]

moveDown(b) ==
    LET moved == moveRight(transposeBoard(b))
    IN  [newBoard |-> transposeBoard(moved.newBoard), changed |-> moved.changed]

move(b, direction) ==
    CASE direction = "left" -> moveLeft(b)
      [] direction = "right" -> moveRight(b)
      [] direction = "up" -> moveUp(b)
      [] direction = "down" -> moveDown(b)
      [] OTHER -> [newBoard |-> b, changed |-> FALSE]

\* What reading past the end of an array yields.
undefined == -1

\* transposeBoard with the values of the constants BOARD_ROWS and BOARD_COLS
\* as parameters.  Reading a row the board does not have throws a TypeError
\* (a property of undefined is read); reading a cell a row does not have
\* yields undefined.
transposeBoardFor(rows, cols, b) ==
    IF cols >= 1 /\ rows > Len(b) THEN [threw |-> TRUE, board |-> <<>>]
    ELSE [threw |-> FALSE,
          board |-> [col \in 1..cols |-> [row \in 1..rows |->
                        IF col <= Len(b[row]) THEN b[row][col] ELSE undefined]]]

\* moveUp and moveDown with the constants as parameters.
moveUpFor(rows, cols, b) ==
    LET transposed == transposeBoardFor(rows, cols, b)
        moved == moveLeft(transposed.board)
        finalBoard == transposeBoardFor(rows, cols, moved.newBoard)
    IN  IF transposed.threw \/ finalBoard.threw
        THEN [threw |-> TRUE, newBoard |-> <<>>, changed |-> FALSE]
        ELSE [threw |-> FALSE, newBoard |-> finalBoard.board, changed |-> moved.changed]

moveDownFor(rows, cols, b) ==
    LET transposed == transposeBoardFor(rows, cols, b)
        moved == moveRight(transposed.board)
        finalBoard == transposeBoardFor(rows, cols, moved.newBoard)
    IN  IF transposed.threw \/ finalBoard.threw
        THEN [threw |-> TRUE, newBoard |-> <<>>, changed |-> FALSE]
        ELSE [threw |-> FALSE, newBoard |-> finalBoard.board, changed |-> moved.changed]

\* Whether move(b, direction) ends by throwing: no branch of the switch
\* throws, the default branch returns like the others.
moveThrows(b, direction) ==
    CASE direction \in Directions -> FALSE
      [] OTHER -> FALSE

----------------------------------------------------------------------------
(* addRandomTile                                                           *)

\* The cells in the order of the two nested loops (row-major).
allPositions ==
    [k \in 1..(BOARD_ROWS * BOARD_COLS) |->
        <<((k - 1) \div BOARD_COLS) + 1, ((k - 1) % BOARD_COLS) + 1>>]

emptyPositions(b) ==
    SelectSeq(allPositions, LAMBDA pos : b[pos[1]][pos[2]] = null)

\* A spawn that always fills the first empty cell.
addRandomTileFirstEmpty(b, randomIndex, lessThanHalf) ==
    LET empties == emptyPositions(b)
    IN  IF Len(empties) = 0
        THEN [isNull |-> TRUE, board |-> <<>>]
        ELSE LET pos == empties[1]
             IN  [isNull |-> FALSE,
                  board |-> [b EXCEPT ![pos[1]][pos[2]] =
                                IF lessThanHalf THEN 2 ELSE 4]]

\* A spawn that fills the drawn empty cell and the first empty cell.
addRandomTileTwoCells(b, randomIndex, lessThanHalf) ==
    LET empties == emptyPositions(b)
        tile == IF lessThanHalf THEN 2 ELSE 4
    IN  IF Len(empties) = 0
        THEN [isNull |-> TRUE, board |-> <<>>]
        ELSE LET pos == empties[randomIndex + 1]
                 first == empties[1]
             IN  [isNull |-> FALSE,
                  board |-> [b EXCEPT ![pos[1]][pos[2]] = tile,
                                      ![first[1]][first[2]] = tile]]

\* A spawn that returns a copy of the board with no tile written.
addRandomTileNoTile(b, randomIndex, lessThanHalf) ==
    LET empties == emptyPositions(b)
    IN  IF Len(empties) = 0
        THEN [isNull |-> TRUE, board |-> <<>>]
        ELSE [isNull |-> FALSE, board |-> b]

\* randomIndex is Math.floor(Math.random() * emptyPositions.length), drawn by
\* the caller from 0..emptyPositions.length - 1; lessThanHalf is the outcome
\* of Math.random() < 0.5.  The result null is [isNull |-> TRUE].
addRandomTile(b, randomIndex, lessThanHalf) ==
    LET empties == emptyPositions(b)
    IN  IF Len(empties) = 0
        THEN [isNull |-> TRUE, board |-> <<>>]
        ELSE LET pos == empties[randomIndex + 1]
             IN  [isNull |-> FALSE,
                  board |-> [b EXCEPT ![pos[1]][pos[2]] =
                                IF lessThanHalf THEN 2 ELSE 4]]

----------------------------------------------------------------------------
(* hasWon, isBoardFull, hasAdjacentMerge, hasLost                          *)

\* A win check that looks at the first cell of every row only.
hasWonFirstColumn(b) ==
    \E row \in 1..BOARD_ROWS : b[row][1] = WinTile

\* A win check that never finds the tile.
hasWonNever(b) == FALSE

hasWon(b) ==
    \E row \in 1..BOARD_ROWS : \E col \in 1..BOARD_COLS : b[row][col] = WinTile

isBoardFull(b) ==
    ~ \E row \in 1..BOARD_ROWS : \E col \in 1..BOARD_COLS : b[row][col] = null

\* A merge check that looks along the rows only.
hasAdjacentMergeRowsOnly(b) ==
    \E row \in 1..BOARD_ROWS : \E col \in 1..(BOARD_COLS - 1) :
        b[row][col] # null /\ b[row][col] = b[row][col + 1]

hasAdjacentMerge(b) ==
    \/ \E row \in 1..BOARD_ROWS : \E col \in 1..(BOARD_COLS - 1) :
            b[row][col] # null /\ b[row][col] = b[row][col + 1]
    \/ \E col \in 1..BOARD_COLS : \E row \in 1..(BOARD_ROWS - 1) :
            b[row][col] # null /\ b[row][col] = b[row + 1][col]

\* A loss check that takes every full board for lost.
hasLostWhenFull(b) == isBoardFull(b)

\* A loss check without the full-board test.
hasLostNoFullCheck(b) == ~hasAdjacentMerge(b)

hasLost(b) ==
    IF ~isBoardFull(b) THEN FALSE ELSE ~hasAdjacentMerge(b)

----------------------------------------------------------------------------
(* The same operations on a heap of arrays.  heap[ref] is the array with   *)
(* reference ref; a board is an array of references to its row arrays.     *)
(* An array literal, filter, map, push onto a new array and spread         *)
(* allocate; reverse() and an indexed assignment write in place.           *)

\* The heap holding the board b alone: its rows, then the array of rows.
heapOfBoard(b) == Append(b, [k \in 1..Len(b) |-> k])

boardRefOf(b) == Len(b) + 1

\* The board a reference denotes.
boardAt(heap, ref) == [k \in 1..Len(heap[ref]) |-> heap[heap[ref][k]]]

\* [...row]
spreadCopy(heap, ref) == [heap |-> Append(heap, heap[ref]), ref |-> Len(heap) + 1]

\* [...row].reverse()
reverseRowOnHeap(heap, rowRef) ==
    LET copy == spreadCopy(heap, rowRef)
    IN  [heap |-> [copy.heap EXCEPT ![copy.ref] = reverseRow(@)], ref |-> copy.ref]

\* slideRowLeft reads row and returns a new array.
slideRowLeftOnHeap(heap, rowRef) ==
    LET slid == slideRowLeft(heap[rowRef])
    IN  [heap |-> Append(heap, slid.row), ref |-> Len(heap) + 1,
         changed |-> slid.changed]

\* transposeBoard reads board and returns new rows in a new array.
transposeBoardOnHeap(heap, boardRef) ==
    LET transposed == transposeBoard(boardAt(heap, boardRef))
    IN  [heap |-> Append(heap \o transposed,
                         [k \in 1..Len(transposed) |-> Len(heap) + k]),
         ref |-> Len(heap) + Len(transposed) + 1]

\* The loop of moveLeft from row k on; newRows is newBoard so far.
RECURSIVE moveLeftRows(_, _, _, _, _)
moveLeftRows(heap, rows, k, newRows, anyChanged) ==
    IF k > Len(rows)
    THEN [heap |-> Append(heap, newRows), ref |-> Len(heap) + 1,
          changed |-> anyChanged]
    ELSE LET slid == slideRowLeftOnHeap(heap, rows[k])
         IN  moveLeftRows(slid.heap, rows, k + 1, Append(newRows, slid.ref),
                          anyChanged \/ slid.changed)

moveLeftOnHeap(heap, boardRef) == moveLeftRows(heap, heap[boardRef], 1, <<>>, FALSE)

\* The loop of moveRight from row k on.
RECURSIVE moveRightRows(_, _, _, _, _)
moveRightRows(heap, rows, k, newRows, anyChanged) ==
    IF k > Len(rows)
    THEN [heap |-> Append(heap, newRows), ref |-> Len(heap) + 1,
          changed |-> anyChanged]
    ELSE LET reversed == reverseRowOnHeap(heap, rows[k])
             slid == slideRowLeftOnHeap(reversed.heap, reversed.ref)
             finalRow == reverseRowOnHeap(slid.heap, slid.ref)
         IN  moveRightRows(finalRow.heap, rows, k + 1, Append(newRows, finalRow.ref),
                           anyChanged \/ slid.changed)

moveRightOnHeap(heap, boardRef) == moveRightRows(heap, heap[boardRef], 1, <<>>, FALSE)

moveUpOnHeap(heap, boardRef) ==
    LET transposed == transposeBoardOnHeap(heap, boardRef)
        moved == moveLeftOnHeap(transposed.heap, transposed.ref)
        finalBoard == transposeBoardOnHeap(moved.heap, moved.ref)
    IN  [heap |-> finalBoard.heap, ref |-> finalBoard.ref, changed |-> moved.changed]

moveDownOnHeap(heap, boardRef) ==
    LET transposed == transposeBoardOnHeap(heap, boardRef)
        moved == moveRightOnHeap(transposed.heap, transposed.ref)
        finalBoard == transposeBoardOnHeap(moved.heap, moved.ref)
    IN  [heap |-> finalBoard.heap, ref |-> finalBoard.ref, changed |-> moved.changed]

\* The default branch returns the reference it was given.
moveOnHeap(heap, boardRef, direction) ==
    CASE direction = "left" -> moveLeftOnHeap(heap, boardRef)
      [] direction = "right" -> moveRightOnHeap(heap, boardRef)
      [] direction = "up" -> moveUpOnHeap(heap, boardRef)
      [] direction = "down" -> moveDownOnHeap(heap, boardRef)
      [] OTHER -> [heap |-> heap, ref |-> boardRef, changed |-> FALSE]

\* An addRandomTile that copies the array of rows only ([...board]) and so
\* writes the tile into a row of its input.
addRandomTileOnHeapShallowCopy(heap, boardRef, randomIndex, lessThanHalf) ==
    LET positions == emptyPositions(boardAt(heap, boardRef))
    IN  IF Len(positions) = 0 THEN [heap |-> heap, ref |-> 0, isNull |-> TRUE]
        ELSE LET rows == heap[boardRef]
                 copied == Append(heap, rows)
                 pos == positions[randomIndex + 1]
             IN  [heap |-> [copied EXCEPT ![rows[pos[1]]][pos[2]] =
                                              IF lessThanHalf THEN 2 ELSE 4],
                  ref |-> Len(copied), isNull |-> FALSE]

\* board.map(row => [...row]) copies every row into a new array of rows;
\* the tile is written into a row of the copy.  ref 0 is null.
addRandomTileOnHeap(heap, boardRef, randomIndex, lessThanHalf) ==
    LET positions == emptyPositions(boardAt(heap, boardRef))
    IN  IF Len(positions) = 0 THEN [heap |-> heap, ref |-> 0, isNull |-> TRUE]
        ELSE LET rows == heap[boardRef]
                 newRows == [k \in 1..Len(rows) |-> Len(heap) + k]
                 copied == Append(heap \o [k \in 1..Len(rows) |-> heap[rows[k]]],
                                  newRows)
                 pos == positions[randomIndex + 1]
             IN  [heap |-> [copied EXCEPT ![newRows[pos[1]]][pos[2]] =
                                              IF lessThanHalf THEN 2 ELSE 4],
                  ref |-> Len(copied), isNull |-> FALSE]

----------------------------------------------------------------------------
(* initializeBoard                                                         *)

\* The values of Math.floor(Math.random() * length) the game model draws:
\* the first and the last index (Math.random() at either end of [0, 1)).
RandomIndexes(length) == IF length = 0 THEN {0} ELSE {0, length - 1}

\* availablePositions.splice(randomIndex, 1)
splice(positions, randomIndex) ==
    SubSeq(positions, 1, randomIndex) \o SubSeq(positions, randomIndex + 2, Len(positions))

\* The placement loop with `remaining` iterations to go: the boards it can
\* end with.
RECURSIVE placeTiles(_, _, _)
placeTiles(newBoard, availablePositions, remaining) ==
    IF remaining = 0 \/ Len(availablePositions) = 0 THEN {newBoard}
    ELSE UNION { LET pos == availablePositions[randomIndex + 1]
                 IN  placeTiles([newBoard EXCEPT ![pos[1]][pos[2]] = 2],
                                splice(availablePositions, randomIndex),
                                remaining - 1) :
                 randomIndex \in RandomIndexes(Len(availablePositions)) }

\* The values of Math.floor(Math.random() * length), without the + 1.
tilesToPlaceDrawsBelowLength(length) == 0..(length - 1)

\* The values of Math.floor(Math.random() * (availablePositions.length + 1)).
tilesToPlaceDraws(length) == 0..length

\* initializeBoard for one draw of tilesToPlace: the boards it can return.
initializeBoard(tilesToPlace) ==
    placeTiles([row \in 1..BOARD_ROWS |-> [col \in 1..BOARD_COLS |-> null]],
               allPositions, tilesToPlace)

\* The boards initializeBoard can return in the game model.
initialBoards ==
    UNION {initializeBoard(tilesToPlace) :
              tilesToPlace \in tilesToPlaceDraws(Len(allPositions))}

----------------------------------------------------------------------------
(* Game: initGame and handleMove                                           *)

\* Variants of handleMove: without the status guard (guarded = FALSE), with
\* the spawn made before the win check (spawnFirst), with a spawn made even
\* when the move changed nothing (alwaysSpawn).
handleMoveVariant(guarded, spawnFirst, alwaysSpawn,
                  currentBoard, status, direction, randomIndex, lessThanHalf) ==
    LET ignored == [board |-> currentBoard, gameStatus |-> status, moved |-> FALSE,
                    newBoard |-> <<>>, changed |-> FALSE, isNull |-> FALSE]
    IN  IF guarded /\ status # "playing" THEN ignored
        ELSE IF Len(currentBoard) = 0 THEN ignored
        ELSE LET result == move(currentBoard, direction)
                 newBoard == result.newBoard
                 done == [ignored EXCEPT !.moved = TRUE, !.newBoard = newBoard,
                                         !.changed = result.changed]
                 empties == emptyPositions(newBoard)
                 index == IF randomIndex < Len(empties) THEN randomIndex ELSE 0
                 boardWithNewTile == addRandomTile(newBoard, index, lessThanHalf)
                 finalBoard == IF boardWithNewTile.isNull THEN newBoard
                               ELSE boardWithNewTile.board
                 spawned == [done EXCEPT
                               !.board = finalBoard,
                               !.gameStatus = IF hasLost(finalBoard) THEN "lost"
                                              ELSE status,
                               !.isNull = boardWithNewTile.isNull]
             IN  IF result.changed
                 THEN IF spawnFirst
                      THEN IF hasWon(finalBoard)
                           THEN [spawned EXCEPT !.gameStatus = "won"]
                           ELSE spawned
                      ELSE IF hasWon(newBoard)
                           THEN [done EXCEPT !.board = newBoard, !.gameStatus = "won"]
                           ELSE spawned
                 ELSE IF alwaysSpawn THEN spawned ELSE done

handleMoveSpawnFirst(currentBoard, status, direction, randomIndex, lessThanHalf) ==
    handleMoveVariant(TRUE, TRUE, FALSE,
                      currentBoard, status, direction, randomIndex, lessThanHalf)

handleMoveNoGuard(currentBoard, status, direction, randomIndex, lessThanHalf) ==
    handleMoveVariant(FALSE, FALSE, FALSE,
                      currentBoard, status, direction, randomIndex, lessThanHalf)

handleMoveAlwaysSpawn(currentBoard, status, direction, randomIndex, lessThanHalf) ==
    handleMoveVariant(TRUE, FALSE, TRUE,
                      currentBoard, status, direction, randomIndex, lessThanHalf)

\* The state handleMove leaves: the status guard, then the setBoard updater
\* run on currentBoard.  newBoard and changed are the locals of the updater
\* (moved is false when move was never called).
handleMove(currentBoard, status, direction, randomIndex, lessThanHalf) ==
    LET ignored == [board |-> currentBoard, gameStatus |-> status, moved |-> FALSE,
                    newBoard |-> <<>>, changed |-> FALSE, isNull |-> FALSE]
    IN  IF status # "playing" THEN ignored
        ELSE IF Len(currentBoard) = 0 THEN ignored
        ELSE LET result == move(currentBoard, direction)
                 newBoard == result.newBoard
                 done == [ignored EXCEPT !.moved = TRUE, !.newBoard = newBoard,
                                         !.changed = result.changed]
             IN  IF result.changed
                 THEN IF hasWon(newBoard)
                      THEN [done EXCEPT !.board = newBoard, !.gameStatus = "won"]
                      ELSE LET boardWithNewTile ==
                                   addRandomTile(newBoard, randomIndex, lessThanHalf)
                               finalBoard == IF boardWithNewTile.isNull THEN newBoard
                                             ELSE boardWithNewTile.board
                           IN  [done EXCEPT
                                  !.board = finalBoard,
                                  !.gameStatus = IF hasLost(finalBoard) THEN "lost"
                                                 ELSE status,
                                  !.isNull = boardWithNewTile.isNull]
                 ELSE done

----------------------------------------------------------------------------
(* The suggest-move route.  A string whose case matters is a sequence of   *)
(* one-character strings; "" as a key is a missing or empty key.           *)

LowerLetters ==
    <<"a", "b", "c", "d", "e", "f", "g", "h", "i", "j", "k", "l", "m",
      "n", "o", "p", "q", "r", "s", "t", "u", "v", "w", "x", "y", "z">>

UpperLetters ==
    <<"A", "B", "C", "D", "E", "F", "G", "H", "I", "J", "K", "L", "M",
      "N", "O", "P", "Q", "R", "S", "T", "U", "V", "W", "X", "Y", "Z">>

\* String.prototype.toLowerCase on strings of ASCII characters.
toLowerCase(chars) ==
    [k \in 1..Len(chars) |->
        IF \E n \in 1..Len(UpperLetters) : UpperLetters[n] = chars[k]
        THEN LowerLetters[CHOOSE n \in 1..Len(UpperLetters) : UpperLetters[n] = chars[k]]
        ELSE chars[k]]

validMoves ==
    { <<"l", "e", "f", "t">>, <<"r", "i", "g", "h", "t">>, <<"u", "p">>,
      <<"d", "o", "w", "n">> }

\* A validation that accepts every value.
validMovesIncludesAnything(value) == TRUE

\* validMoves.includes(value): value is the lower-cased move, or undefined.
validMovesIncludes(value) ==
    value.kind = "string" /\ value.chars \in validMoves

NoMove == <<>>

\* The responses of the catch block: the status of the error caught decides.
caught(status, contacted) ==
    [status |-> IF status = 401 THEN 401 ELSE IF status = 429 THEN 429 ELSE 500,
     move |-> NoMove, reasoning |-> "", contacted |-> contacted,
     error |-> IF status = 401 THEN "Invalid API key. Please check your OpenAI API key."
               ELSE IF status = 429 THEN "Rate limit exceeded. Please try again in a moment."
               ELSE "error.message || Failed to get AI suggestion. Please try again."]

\* POST for a request body, the environment's key and the behaviour of the
\* chat completion call.  An error without a status has status 0.
POST(request, envKey, upstream) ==
    IF request.kind = "malformed" THEN caught(0, FALSE)
    ELSE LET key == IF request.apiKey # "" THEN request.apiKey ELSE envKey
             suggested == upstream.move
         IN  IF key = ""
             THEN [status |-> 400, move |-> NoMove, reasoning |-> "",
                   contacted |-> FALSE, error |-> "No API key provided"]
             ELSE IF upstream.kind = "throws" THEN caught(upstream.status, TRUE)
             ELSE IF upstream.kind = "noContent"
             THEN [status |-> 500, move |-> NoMove, reasoning |-> "",
                   contacted |-> TRUE, error |-> "No response from AI"]
             ELSE IF upstream.kind \in {"notJSON", "jsonNull"} THEN caught(0, TRUE)
             ELSE IF suggested.kind = "other" THEN caught(0, TRUE)
             ELSE IF ~validMovesIncludes(
                         IF suggested.kind = "string"
                         THEN [kind |-> "string", chars |-> toLowerCase(suggested.chars)]
                         ELSE [kind |-> "undefined", chars |-> NoMove])
             THEN [status |-> 500, move |-> NoMove, reasoning |-> "",
                   contacted |-> TRUE, error |-> "Invalid move suggested by AI"]
             ELSE IF suggested.kind # "string" THEN caught(0, TRUE)
             ELSE [status |-> 200, move |-> toLowerCase(suggested.chars),
                   reasoning |-> IF upstream.reasoning = ""
                                 THEN "No reasoning provided"
                                 ELSE upstream.reasoning,
                   contacted |-> TRUE, error |-> ""]

----------------------------------------------------------------------------
(* The record of the last call                                             *)

NoCall ==
    [op |-> "none", direction |-> "none",
     row |-> <<>>, slid |-> [row |-> <<>>, changed |-> FALSE],
     currentBoard |-> <<>>, statusBefore |-> "playing",
     newBoard |-> <<>>, changed |-> FALSE,
     moved |-> FALSE, isNull |-> FALSE, flag |-> FALSE,
     again |-> [newBoard |-> <<>>, changed |-> FALSE],
     availablePositions |-> <<>>, tilesToPlace |-> 0, i |-> 0,
     threw |-> FALSE, heap |-> <<>>, ref |-> 0,
     request |-> [kind |-> "none", apiKey |-> ""], envKey |-> "",
     upstream |-> [kind |-> "none", status |-> 0,
                   move |-> [kind |-> "undefined", chars |-> <<>>],
                   reasoning |-> ""],
     response |-> [status |-> 0, move |-> <<>>, reasoning |-> "",
                   contacted |-> FALSE, error |-> ""],
     before |-> [aiSuggestion |-> "null", aiError |-> "", isLoadingAI |-> FALSE,
                 showApiKeyInput |-> FALSE,
                 fetchRequest |-> NoRequest],
     outcome |-> [kind |-> "none", status |-> 0, move |-> "none", message |-> ""]]

----------------------------------------------------------------------------
(* SpecRow: slideRowLeft applied to every row within the bounds            *)

RowCells == {null} \cup {2 ^ e : e \in 1..RowMaxExp}

InputRows == [1..BOARD_COLS -> RowCells]

InitRow ==
    /\ board = <<>>
    /\ gameStatus = "playing"
    /\ aiSuggestion = "null"
    /\ aiError = ""
    /\ steps = 0
    /\ isLoadingAI = FALSE
    /\ showApiKeyInput = FALSE
    /\ fetchRequest = NoRequest
    /\ capturedStatus = "playing"
    /\ \E row \in InputRows : call = [NoCall EXCEPT !.row = row]

CallSlideRowLeft ==
    /\ call.op = "none"
    /\ call' = [call EXCEPT !.op = "slideRowLeft", !.slid = slideRowLeft(call.row)]
    /\ UNCHANGED <<board, gameStatus, aiSuggestion, aiError, steps,
                   isLoadingAI, fetchRequest, capturedStatus, showApiKeyInput>>

NextRow == CallSlideRowLeft

SpecRow == InitRow /\ [][NextRow]_vars

\* The reference result of a slide: the tiles in order, each merged with its
\* immediate successor when equal, a merged tile never merged again.
RECURSIVE RefMerge(_)
RefMerge(tiles) ==
    IF Len(tiles) = 0 THEN <<>>
    ELSE IF Len(tiles) >= 2 /\ tiles[1] = tiles[2]
         THEN <<2 * tiles[1]>> \o RefMerge(SubSeq(tiles, 3, Len(tiles)))
         ELSE <<tiles[1]>> \o RefMerge(Tail(tiles))

RefSlide(row) ==
    LET tiles == RefMerge(SelectSeq(row, LAMBDA cell : cell # null))
    IN  [k \in 1..Len(row) |-> IF k <= Len(tiles) THEN tiles[k] ELSE null]

\* C1: for every row of length 4 of empty cells and powers of two,
\* slideRowLeft returns the reference result (tiles in order, a tile merged
\* with its immediate equal successor once, padded with empties to length
\* 4); a merged tile is not merged again: [2,2,2,null] gives [4,2,null,null]
\* and [2,2,2,2] gives [4,4,null,null], never [8,null,null,null].
C1_SlideRowLeftIsReference ==
    call.op = "slideRowLeft" =>
        /\ Len(call.slid.row) = BOARD_COLS
        /\ call.slid.row = RefSlide(call.row)
        /\ call.row = <<2, 2, 2, null>> => call.slid.row = <<4, 2, null, null>>
        /\ call.row = <<2, 2, 2, 2>> => call.slid.row = <<4, 4, null, null>>

C1_Witness ==
    /\ call.op = "slideRowLeft"
    /\ call.row = <<2, 2, 2, 2>>
    /\ call.slid.row = <<4, 4, null, null>>

----------------------------------------------------------------------------
(* SpecBoard: the board functions applied to every input board within the  *)
(* bounds.  An input board differs from one of the base boards in at most  *)
(* MaxEdits cells.                                                         *)

\* initializeBoard with tilesToPlace = 0.
EmptyBoard == [row \in 1..BOARD_ROWS |-> [col \in 1..BOARD_COLS |-> null]]

\* The board of the move examples of the requirements.
ExampleBoard ==
    << <<null, 8, 2, 2>>,
       <<4, 2, null, 2>>,
       <<null, null, null, null>>,
       <<null, null, null, 2>> >>

\* The full board without equal neighbours of the lose example.
LostBoard ==
    << <<2, 4, 2, 4>>,
       <<4, 2, 4, 2>>,
       <<2, 4, 2, 4>>,
       <<4, 2, 4, 2>> >>

\* A late full position: two 1024 tiles side by side and above one another,
\* no other equal neighbours.
NearWinBoard ==
    << <<1024, 1024, 4, 2>>,
       <<1024, 512, 32, 4>>,
       <<2, 4, 8, 16>>,
       <<4, 8, 16, 32>> >>

BaseBoards == {EmptyBoard, ExampleBoard, LostBoard, NearWinBoard}

\* An edit empties a cell or writes one of the tiles a spawn writes.
EditCells == {null, 2, 4}

Positions == (1..BOARD_ROWS) \X (1..BOARD_COLS)

EditedBoard(base, edit) ==
    [row \in 1..BOARD_ROWS |-> [col \in 1..BOARD_COLS |->
        IF <<row, col>> \in DOMAIN edit THEN edit[<<row, col>>] ELSE base[row][col]]]

EditCellSets == {S \in SUBSET Positions : Cardinality(S) <= MaxEdits}

IsInputBoard(b) ==
    \E base \in BaseBoards : \E cells \in EditCellSets :
        \E edit \in [cells -> EditCells] : b = EditedBoard(base, edit)

InitBoard ==
    /\ IsInputBoard(board)
    /\ gameStatus = "playing"
    /\ aiSuggestion = "null"
    /\ aiError = ""
    /\ steps = 0
    /\ isLoadingAI = FALSE
    /\ showApiKeyInput = FALSE
    /\ fetchRequest = NoRequest
    /\ capturedStatus = "playing"
    /\ call = NoCall

CallMove ==
    /\ call.op = "none"
    /\ \E direction \in Directions :
          LET moved == move(board, direction)
          IN  call' = [call EXCEPT !.op = "move", !.direction = direction,
                                   !.currentBoard = board,
                                   !.newBoard = moved.newBoard,
                                   !.changed = moved.changed]
    /\ UNCHANGED <<board, gameStatus, aiSuggestion, aiError, steps,
                   isLoadingAI, fetchRequest, capturedStatus, showApiKeyInput>>

CallHasLost ==
    /\ call.op = "none"
    /\ call' = [call EXCEPT !.op = "hasLost", !.currentBoard = board,
                             !.flag = hasLost(board)]
    /\ UNCHANGED <<board, gameStatus, aiSuggestion, aiError, steps,
                   isLoadingAI, fetchRequest, capturedStatus, showApiKeyInput>>

CallAddRandomTile ==
    /\ call.op = "none"
    /\ LET length == Len(emptyPositions(board))
       IN  \E randomIndex \in 0..(IF length = 0 THEN 0 ELSE length - 1) :
           \E lessThanHalf \in BOOLEAN :
              LET added == addRandomTile(board, randomIndex, lessThanHalf)
              IN  call' = [call EXCEPT !.op = "addRandomTile",
                                       !.currentBoard = board,
                                       !.isNull = added.isNull,
                                       !.newBoard = added.board]
    /\ UNCHANGED <<board, gameStatus, aiSuggestion, aiError, steps,
                   isLoadingAI, fetchRequest, capturedStatus, showApiKeyInput>>

\* move applied once more, in the same direction, to the board returned by
\* a move that reported no change.
CallMoveAgain ==
    /\ call.op = "move"
    /\ ~call.changed
    /\ call' = [call EXCEPT !.op = "moveAgain",
                             !.again = move(call.newBoard, call.direction)]
    /\ UNCHANGED <<board, gameStatus, aiSuggestion, aiError, steps,
                   isLoadingAI, fetchRequest, capturedStatus, showApiKeyInput>>

\* Direction values a caller outside the type checker can pass.
UnrecognizedDirections == {"diagonal", "LEFT"}

\* move called with a direction that is none of the four.
CallMoveUnrecognized ==
    /\ call.op = "none"
    /\ \E direction \in UnrecognizedDirections :
          LET moved == move(board, direction)
          IN  call' = [call EXCEPT !.op = "moveUnrecognized",
                                   !.direction = direction,
                                   !.currentBoard = board,
                                   !.newBoard = moved.newBoard,
                                   !.changed = moved.changed,
                                   !.threw = moveThrows(board, direction)]
    /\ UNCHANGED <<board, gameStatus, aiSuggestion, aiError, steps,
                   isLoadingAI, fetchRequest, capturedStatus, showApiKeyInput>>

NextBoard ==
    \/ CallMove
    \/ CallHasLost
    \/ CallAddRandomTile
    \/ CallMoveAgain
    \/ CallMoveUnrecognized

SpecBoard == InitBoard /\ [][NextBoard]_vars

----------------------------------------------------------------------------
(* SpecEndgame: hasWon applied to boards with and without the 2048 tile    *)

\* The win example of the requirements and of the hasWon tests.
WinBoard ==
    << <<4, null, null, 2>>,
       <<2048, null, null, null>>,
       <<4, 2, null, null>>,
       <<4, null, null, null>> >>

\* The board of the test with several 2048 tiles.
TwoWinTilesBoard ==
    << <<2048, null, null, 2>>,
       <<4, 2048, null, null>>,
       <<4, 2, null, null>>,
       <<4, null, null, null>> >>

\* The board of the test without a 2048 tile.
NoWinBoard ==
    << <<4, 1024, 512, 2>>,
       <<256, 128, 64, 32>>,
       <<16, 8, 4, 2>>,
       <<4, 2, null, null>> >>

EndgameBoards == {EmptyBoard, WinBoard, TwoWinTilesBoard, NoWinBoard, NearWinBoard}

\* An edit empties a cell, writes a 2 or writes the winning tile.
EndgameEditCells == {null, 2, WinTile}

InitEndgame ==
    /\ \E base \in EndgameBoards : \E cells \in EditCellSets :
          \E edit \in [cells -> EndgameEditCells] : board = EditedBoard(base, edit)
    /\ gameStatus = "playing"
    /\ aiSuggestion = "null"
    /\ aiError = ""
    /\ steps = 0
    /\ isLoadingAI = FALSE
    /\ showApiKeyInput = FALSE
    /\ fetchRequest = NoRequest
    /\ capturedStatus = "playing"
    /\ call = NoCall

CallHasWon ==
    /\ call.op = "none"
    /\ call' = [call EXCEPT !.op = "hasWon", !.currentBoard = board,
                             !.flag = hasWon(board)]
    /\ UNCHANGED <<board, gameStatus, aiSuggestion, aiError, steps,
                   isLoadingAI, fetchRequest, capturedStatus, showApiKeyInput>>

NextEndgame == CallHasWon

SpecEndgame == InitEndgame /\ [][NextEndgame]_vars

\* C12: hasWon(board) is true iff at least one cell holds 2048, whatever
\* the other cells hold; it is false for the all-empty board and for every
\* board without a 2048 tile.
C12_HasWonIffSomeCellIs2048 ==
    call.op = "hasWon" =>
        LET b == call.currentBoard
            winCells == {pos \in Positions : b[pos[1]][pos[2]] = 2048}
        IN  /\ call.flag <=> winCells # {}
            /\ b = EmptyBoard => ~call.flag
            /\ (\A pos \in Positions : b[pos[1]][pos[2]] # 2048) => ~call.flag

\* hasWon answered true for a full board with several 2048 tiles, none of
\* them in the first column.
C12_Witness ==
    /\ call.op = "hasWon"
    /\ call.flag
    /\ \A pos \in Positions : call.currentBoard[pos[1]][pos[2]] # null
    /\ Cardinality({pos \in Positions :
                        call.currentBoard[pos[1]][pos[2]] = 2048}) >= 2
    /\ \A row \in 1..BOARD_ROWS : call.currentBoard[row][1] # 2048

----------------------------------------------------------------------------
(* SpecInit: initializeBoard, one step per iteration of its placement loop, *)
(* with every value its random draws can take                              *)

InitInit ==
    /\ board = <<>>
    /\ gameStatus = "playing"
    /\ aiSuggestion = "null"
    /\ aiError = ""
    /\ steps = 0
    /\ isLoadingAI = FALSE
    /\ showApiKeyInput = FALSE
    /\ fetchRequest = NoRequest
    /\ capturedStatus = "playing"
    /\ call = NoCall

\* The empty board, the list of positions and the draw of tilesToPlace.
InitializeBoardStart ==
    /\ call.op = "none"
    /\ \E tilesToPlace \in tilesToPlaceDraws(Len(allPositions)) :
          call' = [call EXCEPT !.op = "placing",
                               !.newBoard = EmptyBoard,
                               !.availablePositions = allPositions,
                               !.tilesToPlace = tilesToPlace,
                               !.i = 0]
    /\ UNCHANGED <<board, gameStatus, aiSuggestion, aiError, steps,
                   isLoadingAI, fetchRequest, capturedStatus, showApiKeyInput>>

\* One iteration of the placement loop.
InitializeBoardPlace ==
    /\ call.op = "placing"
    /\ call.i < call.tilesToPlace
    /\ Len(call.availablePositions) # 0
    /\ \E randomIndex \in 0..(Len(call.availablePositions) - 1) :
          LET pos == call.availablePositions[randomIndex + 1]
          IN  call' = [call EXCEPT !.newBoard[pos[1]][pos[2]] = 2,
                                   !.availablePositions = splice(@, randomIndex),
                                   !.i = @ + 1]
    /\ UNCHANGED <<board, gameStatus, aiSuggestion, aiError, steps,
                   isLoadingAI, fetchRequest, capturedStatus, showApiKeyInput>>

\* The loop ends and newBoard is returned.
InitializeBoardReturn ==
    /\ call.op = "placing"
    /\ call.i >= call.tilesToPlace \/ Len(call.availablePositions) = 0
    /\ call' = [call EXCEPT !.op = "initializeBoard"]
    /\ UNCHANGED <<board, gameStatus, aiSuggestion, aiError, steps,
                   isLoadingAI, fetchRequest, capturedStatus, showApiKeyInput>>

NextInit == InitializeBoardStart \/ InitializeBoardPlace \/ InitializeBoardReturn

SpecInit == InitInit /\ [][NextInit]_vars

----------------------------------------------------------------------------
(* SpecRect: transposeBoard, moveUp and moveDown on non-square boards, the *)
(* constants BOARD_ROWS and BOARD_COLS set to the board's dimensions       *)

RectCells == {null, 2, 4}

\* The dimensions R x C with R # C of at most RectMaxCells cells.
RectDimensions ==
    {d \in (1..RectMaxCells) \X (1..RectMaxCells) :
        d[1] # d[2] /\ d[1] * d[2] <= RectMaxCells}

InitRect ==
    /\ \E d \in RectDimensions : board \in [1..d[1] -> [1..d[2] -> RectCells]]
    /\ gameStatus = "playing"
    /\ aiSuggestion = "null"
    /\ aiError = ""
    /\ steps = 0
    /\ isLoadingAI = FALSE
    /\ showApiKeyInput = FALSE
    /\ fetchRequest = NoRequest
    /\ capturedStatus = "playing"
    /\ call = NoCall

CallTransposeBoardRect ==
    /\ call.op = "none"
    /\ LET transposed == transposeBoardFor(Len(board), Len(board[1]), board)
       IN  call' = [call EXCEPT !.op = "transposeBoard", !.currentBoard = board,
                                !.newBoard = transposed.board,
                                !.threw = transposed.threw]
    /\ UNCHANGED <<board, gameStatus, aiSuggestion, aiError, steps,
                   isLoadingAI, fetchRequest, capturedStatus, showApiKeyInput>>

CallMoveUpRect ==
    /\ call.op = "none"
    /\ LET moved == moveUpFor(Len(board), Len(board[1]), board)
       IN  call' = [call EXCEPT !.op = "moveUp", !.currentBoard = board,
                                !.newBoard = moved.newBoard,
                                !.changed = moved.changed,
                                !.threw = moved.threw]
    /\ UNCHANGED <<board, gameStatus, aiSuggestion, aiError, steps,
                   isLoadingAI, fetchRequest, capturedStatus, showApiKeyInput>>

CallMoveDownRect ==
    /\ call.op = "none"
    /\ LET moved == moveDownFor(Len(board), Len(board[1]), board)
       IN  call' = [call EXCEPT !.op = "moveDown", !.currentBoard = board,
                                !.newBoard = moved.newBoard,
                                !.changed = moved.changed,
                                !.threw = moved.threw]
    /\ UNCHANGED <<board, gameStatus, aiSuggestion, aiError, steps,
                   isLoadingAI, fetchRequest, capturedStatus, showApiKeyInput>>

NextRect == CallTransposeBoardRect \/ CallMoveUpRect \/ CallMoveDownRect

SpecRect == InitRect /\ [][NextRect]_vars

\* Column col of an R x C board, top to bottom.
Column(b, col) == [row \in 1..Len(b) |-> b[row][col]]

\* The transpose part of C18: for an R x C board transposeBoard returns the
\* C x R board with result[c][r] = board[r][c].
RectTransposeIsTranspose ==
    call.op = "transposeBoard" =>
        LET b == call.currentBoard
        IN  /\ ~call.threw
            /\ call.newBoard =
                  [c \in 1..Len(b[1]) |-> [r \in 1..Len(b) |-> b[r][c]]]

\* C18: the board algorithms generalise to non-square boards: for R # C
\* transposeBoard returns the C x R transpose, and moveUp / moveDown return
\* the R x C board whose columns are the input's columns slid and merged
\* toward the top / the bottom.
C18_NonSquareBoards ==
    LET b == call.currentBoard
        R == Len(b)
        C == Len(b[1])
    IN  /\ RectTransposeIsTranspose
        /\ call.op = "moveUp" =>
              /\ ~call.threw
              /\ call.newBoard =
                    [r \in 1..R |-> [c \in 1..C |->
                        slideRowLeft(Column(b, c)).row[r]]]
        /\ call.op = "moveDown" =>
              /\ ~call.threw
              /\ call.newBoard =
                    [r \in 1..R |-> [c \in 1..C |->
                        reverseRow(slideRowLeft(reverseRow(Column(b, c))).row)[r]]]

----------------------------------------------------------------------------
(* SpecHeap: move and addRandomTile applied to a board held on the heap    *)

HeapBaseBoards == {ExampleBoard, LostBoard}

HeapEditCells == {null, 2}

InitHeap ==
    /\ \E base \in HeapBaseBoards : \E cells \in EditCellSets :
          \E edit \in [cells -> HeapEditCells] : board = EditedBoard(base, edit)
    /\ gameStatus = "playing"
    /\ aiSuggestion = "null"
    /\ aiError = ""
    /\ steps = 0
    /\ isLoadingAI = FALSE
    /\ showApiKeyInput = FALSE
    /\ fetchRequest = NoRequest
    /\ capturedStatus = "playing"
    /\ call = NoCall

CallMoveOnHeap ==
    /\ call.op = "none"
    /\ \E direction \in Directions \cup UnrecognizedDirections :
          LET moved == moveOnHeap(heapOfBoard(board), boardRefOf(board), direction)
          IN  call' = [call EXCEPT !.op = "moveOnHeap", !.direction = direction,
                                   !.currentBoard = board,
                                   !.heap = moved.heap, !.ref = moved.ref,
                                   !.changed = moved.changed]
    /\ UNCHANGED <<board, gameStatus, aiSuggestion, aiError, steps,
                   isLoadingAI, fetchRequest, capturedStatus, showApiKeyInput>>

CallAddRandomTileOnHeap ==
    /\ call.op = "none"
    /\ \E randomIndex \in 0..(IF isBoardFull(board) THEN 0
                               ELSE Len(emptyPositions(board)) - 1) :
       \E lessThanHalf \in BOOLEAN :
          LET added == addRandomTileOnHeap(heapOfBoard(board), boardRefOf(board),
                                           randomIndex, lessThanHalf)
          IN  call' = [call EXCEPT !.op = "addRandomTileOnHeap",
                                   !.currentBoard = board,
                                   !.heap = added.heap, !.ref = added.ref,
                                   !.isNull = added.isNull]
    /\ UNCHANGED <<board, gameStatus, aiSuggestion, aiError, steps,
                   isLoadingAI, fetchRequest, capturedStatus, showApiKeyInput>>

NextHeap == CallMoveOnHeap \/ CallAddRandomTileOnHeap

SpecHeap == InitHeap /\ [][NextHeap]_vars

----------------------------------------------------------------------------
(* SpecRoute: one request to the suggest-move route                        *)

RequestBodies ==
    {[kind |-> "malformed", apiKey |-> ""]}
        \cup {[kind |-> "json", apiKey |-> apiKey] : apiKey \in {"", "sk-request"}}

EnvKeys == {"", "sk-env"}

\* Every spelling of a word in upper and lower case letters.
CaseVariants(word) ==
    {[k \in 1..Len(word) |->
        IF k \in upper
        THEN UpperLetters[CHOOSE n \in 1..Len(LowerLetters) : LowerLetters[n] = word[k]]
        ELSE word[k]] : upper \in SUBSET (1..Len(word))}

\* Strings that are no direction in any case: the empty string, a prefix,
\* a plural, padded and other words.
OtherStrings ==
    { <<>>, <<"l">>, <<"l", "e", "f">>, <<"l", "e", "f", "t", "s">>,
      <<"u", "p", " ">>, <<" ", "u", "p">>, <<"U", "P", "!">>,
      <<"n", "o", "r", "t", "h">>, <<"L", "E", "F", "T", "-", "U", "P">> }

\* The values of suggestion.move: a string, a missing property, null, or a
\* value of another type (a number, an array).
MoveValues ==
    {[kind |-> "string", chars |-> chars] :
        chars \in OtherStrings \cup UNION {CaseVariants(word) : word \in validMoves}}
    \cup {[kind |-> kind, chars |-> <<>>] : kind \in {"undefined", "null", "other"}}

\* What the chat completion call does: it throws (with a status, 0 for
\* none), returns no content, content that is not JSON, the JSON null, or
\* a JSON object.
Upstreams ==
    {[kind |-> "throws", status |-> status,
      move |-> [kind |-> "undefined", chars |-> <<>>], reasoning |-> ""] :
        status \in {0, 401, 429, 503}}
    \cup {[kind |-> kind, status |-> 0,
           move |-> [kind |-> "undefined", chars |-> <<>>], reasoning |-> ""] :
        kind \in {"noContent", "notJSON", "jsonNull"}}
    \cup {[kind |-> "object", status |-> 0, move |-> suggested, reasoning |-> reasoning] :
        suggested \in MoveValues, reasoning \in {"", "keeps the corner"}}

InitRoute ==
    /\ board = <<>>
    /\ gameStatus = "playing"
    /\ aiSuggestion = "null"
    /\ aiError = ""
    /\ steps = 0
    /\ isLoadingAI = FALSE
    /\ showApiKeyInput = FALSE
    /\ fetchRequest = NoRequest
    /\ capturedStatus = "playing"
    /\ call = NoCall

CallPOST ==
    /\ call.op = "none"
    /\ \E request \in RequestBodies : \E envKey \in EnvKeys :
       \E upstream \in Upstreams :
          call' = [call EXCEPT !.op = "POST", !.request = request,
                               !.envKey = envKey, !.upstream = upstream,
                               !.response = POST(request, envKey, upstream)]
    /\ UNCHANGED <<board, gameStatus, aiSuggestion, aiError, steps,
                   isLoadingAI, fetchRequest, capturedStatus, showApiKeyInput>>

NextRoute == CallPOST

SpecRoute == InitRoute /\ [][NextRoute]_vars

\* Two strings equal up to the case of their letters.
EqualIgnoringCase(s, t) ==
    /\ Len(s) = Len(t)
    /\ \A k \in 1..Len(s) :
          \/ s[k] = t[k]
          \/ \E n \in 1..26 :
                {s[k], t[k]} = {LowerLetters[n], UpperLetters[n]}

\* The model returned an object whose move is one of the four directions
\* in some spelling.
SuggestedDirection ==
    /\ call.upstream.kind = "object"
    /\ call.upstream.move.kind = "string"
    /\ \E valid \in validMoves : EqualIgnoringCase(call.upstream.move.chars, valid)

KeyMissing == call.request.kind = "json" /\ call.request.apiKey = "" /\ call.envKey = ""

\* C20: the route answers with success only when the model's move,
\* lower-cased, is left, right, up or down, and then forwards the
\* lower-cased move; for any other or missing move value of the model's
\* answer it responds 500 and forwards no move; with no API key in the
\* request and none in the environment it responds 400 without contacting
\* the model.
C20_RouteValidatesMoveAndKey ==
    call.op = "POST" =>
        /\ call.response.status = 200 =>
              /\ SuggestedDirection
              /\ call.response.move \in validMoves
              /\ EqualIgnoringCase(call.response.move, call.upstream.move.chars)
        /\ call.response.status # 200 => call.response.move = NoMove
        /\ (call.response.contacted /\ call.upstream.kind = "object"
                /\ ~SuggestedDirection) => call.response.status = 500
        /\ KeyMissing => call.response.status = 400 /\ ~call.response.contacted

\* A success that forwards "left" for a model answer spelled otherwise, the
\* key taken from the environment.
C20_Witness ==
    /\ call.op = "POST"
    /\ call.response.status = 200
    /\ call.response.move = <<"l", "e", "f", "t">>
    /\ call.upstream.move.chars = <<"L", "e", "F", "T">>
    /\ call.request.apiKey = "" /\ call.envKey = "sk-env"

----------------------------------------------------------------------------
(* Spec: the game.  A run starts in the state after construction or in a   *)
(* position of a game in progress, and handles at most MaxSteps inputs.    *)

\* One move and a spawn away from the lose example.
NearLossBoard ==
    << <<null, 2, 4, 2>>,
       <<4, 2, 4, 2>>,
       <<2, 4, 2, 4>>,
       <<4, 2, 4, 2>> >>

GameBoards == {<<>>, ExampleBoard, NearWinBoard, NearLossBoard}

Init ==
    /\ board \in GameBoards
    /\ gameStatus = "playing"
    /\ aiSuggestion = "null"
    /\ aiError = ""
    /\ steps = 0
    /\ isLoadingAI = FALSE
    /\ showApiKeyInput = FALSE
    /\ fetchRequest = NoRequest
    /\ capturedStatus = "playing"
    /\ call = NoCall

\* A handleMove that is never created again (useCallback without
\* dependencies): its closure keeps the status of the first render.
closureAfterRenderNoDeps(captured, status) == captured

\* The gameStatus the closure of handleMove holds after the re-render that
\* follows an input: useCallback(..., [gameStatus]) creates handleMove again
\* when the status changed, and the keydown effect subscribes it again.
closureAfterRender(captured, status) == status

\* The AI state as the last call found it.
AIState ==
    [aiSuggestion |-> aiSuggestion, aiError |-> aiError,
     isLoadingAI |-> isLoadingAI, showApiKeyInput |-> showApiKeyInput,
     fetchRequest |-> fetchRequest]

\* An initGame that leaves the suggestion and the error on display.
initGameFromKeepingSuggestion(boards) ==
    /\ steps < MaxSteps
    /\ board' \in boards
    /\ gameStatus' = "playing"
    /\ steps' = steps + 1
    /\ call' = [NoCall EXCEPT !.op = "initGame", !.statusBefore = gameStatus,
                              !.before = AIState]
    /\ capturedStatus' = closureAfterRender(capturedStatus, gameStatus')
    /\ UNCHANGED <<aiSuggestion, aiError, isLoadingAI, fetchRequest, showApiKeyInput>>

\* initGame, initializeBoard returning one of boards.
initGameFrom(boards) ==
    /\ steps < MaxSteps
    /\ board' \in boards
    /\ gameStatus' = "playing"
    /\ aiSuggestion' = "null"
    /\ aiError' = ""
    /\ steps' = steps + 1
    /\ call' = [NoCall EXCEPT !.op = "initGame", !.statusBefore = gameStatus,
                              !.before = AIState]
    /\ capturedStatus' = closureAfterRender(capturedStatus, gameStatus')
    /\ UNCHANGED <<isLoadingAI, fetchRequest, showApiKeyInput>>

\* The mount effect and the New Game buttons.
InitGame == initGameFrom(initialBoards)

\* The empty cells a spawn after move(board, direction) can draw from.
SpawnLength(b, direction) ==
    IF Len(b) = 0 THEN 0 ELSE Len(emptyPositions(move(b, direction).newBoard))

\* A direction input: a key, a direction button or a swipe; the spawn draws
\* its cell among the indexes randomIndexes[length] of length empty cells.
handleMoveInput(randomIndexes) ==
    /\ steps < MaxSteps
    /\ \E direction \in Directions :
       \E randomIndex \in randomIndexes[SpawnLength(board, direction)] :
       \E lessThanHalf \in BOOLEAN :
          LET after == handleMove(board, capturedStatus, direction,
                                  randomIndex, lessThanHalf)
          IN  /\ board' = after.board
              /\ gameStatus' = IF after.gameStatus = capturedStatus THEN gameStatus
                               ELSE after.gameStatus
              /\ call' = [NoCall EXCEPT !.op = "handleMove", !.direction = direction,
                                        !.currentBoard = board,
                                        !.statusBefore = gameStatus,
                                        !.moved = after.moved,
                                        !.newBoard = after.newBoard,
                                        !.changed = after.changed,
                                        !.isNull = after.isNull]
    /\ steps' = steps + 1
    /\ capturedStatus' = closureAfterRender(capturedStatus, gameStatus')
    /\ UNCHANGED <<aiSuggestion, aiError, isLoadingAI, fetchRequest, showApiKeyInput>>

HandleMove ==
    handleMoveInput([length \in 0..Len(allPositions) |-> RandomIndexes(length)])

Next == InitGame \/ HandleMove

Spec == Init /\ [][Next]_vars

----------------------------------------------------------------------------
(* SpecAI: the game with the AI suggestion.  getAISuggestion runs up to    *)
(* its fetch in one step; the answer to the fetch, if it ever comes, is    *)
(* handled in a later step, with inputs handled in between.                *)

\* How a fetch can end: the route answers 200 with a valid move, it answers
\* with an error status and an error text (possibly none), or fetch or
\* response.json() throws with a message (possibly none).
Outcomes ==
    {[kind |-> "ok", status |-> 200, move |-> direction, message |-> ""] :
        direction \in Directions}
    \cup {[kind |-> "http", status |-> 401, move |-> "none",
           message |-> "Invalid API key. Please check your OpenAI API key."],
          [kind |-> "http", status |-> 500, move |-> "none", message |-> ""],
          [kind |-> "thrown", status |-> 0, move |-> "none", message |-> ""]}

\* A settlement that also plays the suggested move on the board.
getAISuggestionSettledPlayingMove(state, outcome) ==
    [state EXCEPT
        !.board = IF outcome.kind = "ok" THEN move(@, outcome.move).newBoard ELSE @,
        !.aiSuggestion = IF outcome.kind = "ok" THEN outcome.move ELSE @,
        !.aiError = IF outcome.kind = "ok" THEN @
                    ELSE IF outcome.message # "" THEN outcome.message
                    ELSE "Failed to get suggestion",
        !.isLoadingAI = FALSE,
        !.fetchRequest = [@ EXCEPT !.inFlight = FALSE]]

\* getAISuggestion from the answer of the fetch on: setAiSuggestion(data)
\* for an ok response, setAiError(message) for an error response or a
\* thrown error, setIsLoadingAI(false) in every case.
getAISuggestionSettled(state, outcome) ==
    [state EXCEPT
        !.showApiKeyInput = IF outcome.kind = "http" /\ outcome.status \in {401, 400}
                            THEN TRUE ELSE @,
        !.aiSuggestion = IF outcome.kind = "ok" THEN outcome.move ELSE @,
        !.aiError = IF outcome.kind = "ok" THEN @
                    ELSE IF outcome.message # "" THEN outcome.message
                    ELSE IF outcome.kind = "http" THEN "Failed to get suggestion"
                    ELSE "Failed to get AI suggestion",
        !.isLoadingAI = FALSE,
        !.fetchRequest = [@ EXCEPT !.inFlight = FALSE]]

\* A getAISuggestion without its two guards.
getAISuggestionStartedUnguarded(state) ==
    [state EXCEPT !.isLoadingAI = TRUE, !.aiError = "", !.aiSuggestion = "null",
                  !.fetchRequest = [inFlight |-> TRUE, board |-> state.board,
                                    sent |-> @.sent + 1]]

\* getAISuggestion up to the fetch: nothing when the game is over or the
\* board is not initialised, else the loading flag, the cleared error and
\* suggestion, and the fetch carrying the board.
getAISuggestionStarted(state) ==
    IF state.gameStatus # "playing" THEN state
    ELSE IF Len(state.board) = 0 THEN state
    ELSE [state EXCEPT !.isLoadingAI = TRUE, !.aiError = "", !.aiSuggestion = "null",
                       !.fetchRequest = [inFlight |-> TRUE, board |-> state.board,
                                         sent |-> @.sent + 1]]

\* The state of the component that getAISuggestion reads and writes.
ComponentState ==
    [board |-> board, gameStatus |-> gameStatus, aiSuggestion |-> aiSuggestion,
     aiError |-> aiError, isLoadingAI |-> isLoadingAI,
     showApiKeyInput |-> showApiKeyInput, fetchRequest |-> fetchRequest]

\* A call of getAISuggestion; the button is disabled while isLoadingAI.
\* At most MaxRequests calls send a request.
GetAISuggestion ==
    /\ ~isLoadingAI
    /\ \/ fetchRequest.sent < MaxRequests
       \/ getAISuggestionStarted(ComponentState) = ComponentState
    /\ LET after == getAISuggestionStarted(ComponentState)
       IN  /\ board' = after.board
           /\ gameStatus' = after.gameStatus
           /\ aiSuggestion' = after.aiSuggestion
           /\ aiError' = after.aiError
           /\ isLoadingAI' = after.isLoadingAI
           /\ showApiKeyInput' = after.showApiKeyInput
           /\ fetchRequest' = after.fetchRequest
    /\ call' = [NoCall EXCEPT !.op = "getAISuggestion", !.currentBoard = board,
                              !.statusBefore = gameStatus, !.before = AIState]
    /\ UNCHANGED <<steps, capturedStatus>>

\* The fetch in flight ends and getAISuggestion runs to its end.
AIResponse ==
    /\ fetchRequest.inFlight
    /\ \E outcome \in Outcomes :
          LET after == getAISuggestionSettled(ComponentState, outcome)
          IN  /\ board' = after.board
              /\ gameStatus' = after.gameStatus
              /\ aiSuggestion' = after.aiSuggestion
              /\ aiError' = after.aiError
              /\ isLoadingAI' = after.isLoadingAI
              /\ showApiKeyInput' = after.showApiKeyInput
              /\ fetchRequest' = after.fetchRequest
              /\ call' = [NoCall EXCEPT !.op = "aiResponse", !.currentBoard = board,
                                        !.statusBefore = gameStatus,
                                        !.before = AIState, !.outcome = outcome]
    /\ UNCHANGED <<steps, capturedStatus>>

\* The draws of tilesToPlace the New Game of SpecAI makes: the least and
\* the greatest.
SampleTilesToPlace == {0, Len(allPositions)}

SampleInitialBoards ==
    UNION {initializeBoard(tilesToPlace) : tilesToPlace \in SampleTilesToPlace}

NewGame == initGameFrom(SampleInitialBoards)

AIGameBoards == {<<>>, NearWinBoard, NearLossBoard}

InitAI ==
    /\ board \in AIGameBoards
    /\ gameStatus = "playing"
    /\ aiSuggestion = "null"
    /\ aiError = ""
    /\ steps = 0
    /\ isLoadingAI = FALSE
    /\ showApiKeyInput = FALSE
    /\ fetchRequest = NoRequest
    /\ capturedStatus = "playing"
    /\ call = NoCall

\* The spawn of a direction input of SpecAI draws the first empty cell.
FirstIndex == [length \in 0..Len(allPositions) |-> {0}]

DirectionInput == handleMoveInput(FirstIndex)

NextAI == NewGame \/ DirectionInput \/ GetAISuggestion \/ AIResponse

SpecAI == InitAI /\ [][NextAI]_vars

----------------------------------------------------------------------------
(* Properties of the board functions, checked under SpecBoard              *)

TileCount(b) ==
    Cardinality({pos \in Positions : b[pos[1]][pos[2]] # null})

RECURSIVE SumSeq(_)
SumSeq(cells) == IF cells = <<>> THEN 0 ELSE Head(cells) + SumSeq(Tail(cells))

TileSum(b) == SumSeq([k \in 1..Len(b) |-> SumSeq(b[k])])

Differs(b1, b2) == \E pos \in Positions : b1[pos[1]][pos[2]] # b2[pos[1]][pos[2]]

\* C2: for every board and direction, move reports changed exactly when
\* the new board differs from the input in at least one cell; changed =
\* false implies the new board is cell for cell the input.
C2_ChangedIffDiffers ==
    call.op = "move" =>
        /\ call.changed <=> Differs(call.newBoard, call.currentBoard)
        /\ ~call.changed => call.newBoard = call.currentBoard

\* A move that changed the board by sliding alone (no merge).
C2_Witness ==
    /\ call.op = "move"
    /\ call.changed
    /\ TileCount(call.newBoard) = TileCount(call.currentBoard)
    /\ Differs(call.newBoard, call.currentBoard)

ReverseEachRow(b) ==
    [row \in 1..Len(b) |-> [col \in 1..Len(b[row]) |-> b[row][Len(b[row]) + 1 - col]]]

Transposed(b) ==
    [col \in 1..Len(b[1]) |-> [row \in 1..Len(b) |-> b[row][col]]]

\* C3: directional symmetry.  moveRight(board) is each row reversed of
\* moveLeft of the row-reversed board, moveUp(board) is the transpose of
\* moveLeft of the transposed board, moveDown(board) is the transpose of
\* moveRight of the transposed board; boards and changed flags agree.
C3_DirectionalSymmetry ==
    call.op = "move" =>
        LET b == call.currentBoard
            viaLeft == moveLeft(ReverseEachRow(b))
            upViaLeft == moveLeft(Transposed(b))
            downViaRight == moveRight(Transposed(b))
        IN  /\ call.direction = "right" =>
                  /\ call.newBoard = ReverseEachRow(viaLeft.newBoard)
                  /\ call.changed = viaLeft.changed
            /\ call.direction = "up" =>
                  /\ call.newBoard = Transposed(upViaLeft.newBoard)
                  /\ call.changed = upViaLeft.changed
            /\ call.direction = "down" =>
                  /\ call.newBoard = Transposed(downViaRight.newBoard)
                  /\ call.changed = downViaRight.changed

\* A move down that changed the board and differs from the move up.
C3_Witness ==
    /\ call.op = "move"
    /\ call.direction = "down"
    /\ call.changed
    /\ call.newBoard # moveUp(call.currentBoard).newBoard

\* C4: tile conservation.  For every board and direction the sum of the
\* tile values of the moved board equals the sum of the tile values of the
\* input board.
C4_TileSumConserved ==
    call.op = "move" => TileSum(call.newBoard) = TileSum(call.currentBoard)

\* A move that merged at least one pair.
C4_Witness ==
    /\ call.op = "move"
    /\ TileCount(call.newBoard) < TileCount(call.currentBoard)
    /\ TileSum(call.newBoard) = TileSum(call.currentBoard)

\* The boards equal to b except for one empty cell of b now holding 2 or 4.
OneTileAdded(b) ==
    {[b EXCEPT ![pos[1]][pos[2]] = v] :
        pos \in {q \in Positions : b[q[1]][q[2]] = null}, v \in {2, 4}}

\* Every result addRandomTile can return for b, over all random draws.
AddRandomTileResults(b) ==
    {addRandomTile(b, randomIndex, lessThanHalf).board :
        randomIndex \in 0..(Len(emptyPositions(b)) - 1), lessThanHalf \in BOOLEAN}

\* C9: addRandomTile returns null iff the board has no empty cell;
\* otherwise its possible results are exactly the boards equal to the input
\* except for one previously empty cell now holding 2 or 4 (tile count + 1,
\* no existing tile altered); with one empty cell, that cell is filled.
C9_AddRandomTileResults ==
    call.op = "addRandomTile" =>
        LET b == call.currentBoard
        IN  /\ call.isNull <=> (\A pos \in Positions : b[pos[1]][pos[2]] # null)
            /\ ~call.isNull =>
                  /\ call.newBoard \in OneTileAdded(b)
                  /\ TileCount(call.newBoard) = TileCount(b) + 1
                  /\ \A pos \in Positions :
                        b[pos[1]][pos[2]] # null =>
                            call.newBoard[pos[1]][pos[2]] = b[pos[1]][pos[2]]
                  /\ AddRandomTileResults(b) = OneTileAdded(b)
                  /\ TileCount(b) = BOARD_ROWS * BOARD_COLS - 1 =>
                        TileCount(call.newBoard) = BOARD_ROWS * BOARD_COLS

\* A spawn on a board with several empty cells that filled the last of them.
C9_Witness ==
    /\ call.op = "addRandomTile"
    /\ ~call.isNull
    /\ TileCount(call.currentBoard) <= BOARD_ROWS * BOARD_COLS - 2
    /\ LET last == emptyPositions(call.currentBoard)[Len(emptyPositions(call.currentBoard))]
       IN  call.newBoard[last[1]][last[2]] = 4

Adjacent(p, q) ==
    \/ p[1] = q[1] /\ (p[2] - q[2] = 1 \/ q[2] - p[2] = 1)
    \/ p[2] = q[2] /\ (p[1] - q[1] = 1 \/ q[1] - p[1] = 1)

\* C10: hasLost(board) is true iff the board has no empty cell and no two
\* horizontally or vertically adjacent cells hold equal values; a board
\* with an empty cell (the all-empty board included) is never a loss.
C10_HasLostIffFullAndMergeless ==
    call.op = "hasLost" =>
        LET b == call.currentBoard
            full == \A pos \in Positions : b[pos[1]][pos[2]] # null
            equalPair == \E p \in Positions : \E q \in Positions :
                            Adjacent(p, q) /\ b[p[1]][p[2]] = b[q[1]][q[2]]
        IN  /\ call.flag <=> (full /\ ~equalPair)
            /\ ~full => ~call.flag
            /\ b = EmptyBoard => ~call.flag

\* hasLost answered true for a board other than the lose example.
C10_Witness ==
    /\ call.op = "hasLost"
    /\ call.flag
    /\ call.currentBoard # LostBoard

\* C11: hasLost(board) is true iff the board is full and no direction is a
\* valid move, i.e. move(board, d).changed is false for all four directions.
C11_HasLostIffFullAndNoValidMove ==
    call.op = "hasLost" =>
        LET b == call.currentBoard
            full == \A pos \in Positions : b[pos[1]][pos[2]] # null
        IN  call.flag <=>
                (full /\ \A d \in Directions : ~move(b, d).changed)

\* hasLost answered false for a full board whose only valid moves are
\* vertical ones.
C11_Witness ==
    /\ call.op = "hasLost"
    /\ ~call.flag
    /\ \A pos \in Positions : call.currentBoard[pos[1]][pos[2]] # null
    /\ ~move(call.currentBoard, "left").changed
    /\ ~move(call.currentBoard, "right").changed
    /\ move(call.currentBoard, "up").changed

\* C13: when move(board, d) reports changed = false, applying move with
\* the same d to the returned board yields that same board again, with
\* changed = false.
C13_NoOpMoveIsIdempotent ==
    call.op = "moveAgain" =>
        /\ call.again.newBoard = call.newBoard
        /\ ~call.again.changed

\* A no-op move repeated on a board that has tiles and empty cells.
C13_Witness ==
    /\ call.op = "moveAgain"
    /\ TileCount(call.currentBoard) \in 1..(BOARD_ROWS * BOARD_COLS - 1)
    /\ call.again.newBoard = call.currentBoard

\* C17: move called with a direction outside {left, right, up, down}
\* signals an error; it does not return the input board with changed = false.
C17_UnrecognizedDirectionIsError ==
    call.op = "moveUnrecognized" =>
        /\ call.threw
        /\ ~(call.newBoard = call.currentBoard /\ ~call.changed)

----------------------------------------------------------------------------
(* The frame of move and addRandomTile, checked under SpecHeap             *)

\* C19: addRandomTile and move never modify their input board: after the
\* call every cell of the board passed in (and its array of rows) holds
\* what it held before, whether the call returned a new board, null, or
\* changed = false.  The boards returned are those of the operators on
\* values.
C19_InputBoardUnmodified ==
    call.op \in {"moveOnHeap", "addRandomTileOnHeap"} =>
        LET b == call.currentBoard
            before == heapOfBoard(b)
        IN  /\ \A ref \in 1..Len(before) : call.heap[ref] = before[ref]
            /\ boardAt(call.heap, boardRefOf(b)) = b
            /\ call.op = "moveOnHeap" =>
                  /\ boardAt(call.heap, call.ref) = move(b, call.direction).newBoard
                  /\ call.changed = move(b, call.direction).changed
            /\ call.op = "addRandomTileOnHeap" =>
                  /\ call.isNull <=> isBoardFull(b)
                  /\ call.isNull => call.ref = 0
                  /\ ~call.isNull =>
                        boardAt(call.heap, call.ref) \in AddRandomTileResults(b)

\* addRandomTile returned a board with a tile its input does not have, in
\* rows that are not the input's rows.
C19_Witness ==
    /\ call.op = "addRandomTileOnHeap"
    /\ ~call.isNull
    /\ boardAt(call.heap, call.ref) # call.currentBoard
    /\ \A k \in 1..BOARD_ROWS : call.heap[call.ref][k] > boardRefOf(call.currentBoard)
    /\ boardAt(call.heap, boardRefOf(call.currentBoard)) = call.currentBoard

----------------------------------------------------------------------------
(* Properties of initializeBoard, checked under SpecInit                   *)

C15_BetweenOneAndSixteenTiles ==
    call.op = "initializeBoard" =>
        /\ TileCount(call.newBoard) >= 1
        /\ TileCount(call.newBoard) <= 16

----------------------------------------------------------------------------
(* Properties of the game, checked under Spec                              *)

ContainsWinTile(b) == \E pos \in Positions : b[pos[1]][pos[2]] = 2048

FullAndMergeless(b) ==
    /\ \A pos \in Positions : b[pos[1]][pos[2]] # null
    /\ ~ \E p \in Positions : \E q \in Positions :
            Adjacent(p, q) /\ b[p[1]][p[2]] = b[q[1]][q[2]]

\* The last input was a direction handled on an initialised board.
MoveCycle == call.op = "handleMove" /\ call.currentBoard # <<>>

\* The move of the last input, computed again from its arguments.
CycleMove == move(call.currentBoard, call.direction)

\* C5 as stated: across every full move cycle of handleMove the number of
\* tiles never decreases and increases by at most 1 (by 0 when the move did
\* not change the board).
C5_TileCountNeverDecreases ==
    MoveCycle =>
        /\ TileCount(board) >= TileCount(call.currentBoard)
        /\ TileCount(board) <= TileCount(call.currentBoard) + 1
        /\ ~CycleMove.changed => TileCount(board) = TileCount(call.currentBoard)

\* C5 as amended: across every full move cycle of handleMove the number of
\* tiles increases by at most 1 (by 0 when the move did not change the
\* board or was not accepted); it can decrease, since every merge removes a
\* tile: an accepted, board-changing, non-winning cycle ends with the moved
\* board's count plus 1, and a move never adds a tile.
C5_TileCountAtMostOneMore ==
    MoveCycle =>
        LET accepted == call.statusBefore = "playing"
            moved == CycleMove
        IN  /\ TileCount(board) <= TileCount(call.currentBoard) + 1
            /\ ~(accepted /\ moved.changed) =>
                  TileCount(board) = TileCount(call.currentBoard)
            /\ TileCount(moved.newBoard) <= TileCount(call.currentBoard)
            /\ accepted /\ moved.changed /\ ~ContainsWinTile(moved.newBoard) =>
                  TileCount(board) = TileCount(moved.newBoard) + 1

\* A cycle that merged two pairs or more: fewer tiles after the spawn.
C5_Witness ==
    /\ MoveCycle
    /\ call.changed
    /\ gameStatus = "playing"
    /\ TileCount(board) < TileCount(call.currentBoard)

\* C6: when a move changes the board, the win check is made on the moved
\* board before any spawn: if it holds 2048 the status becomes won and the
\* moved board is stored with no tile spawned; otherwise exactly one tile is
\* spawned and the status becomes lost iff the board after the spawn is
\* full with no adjacent equal pair, and stays playing otherwise.
C6_MoveCycleOrdering ==
    MoveCycle /\ call.statusBefore = "playing" /\ CycleMove.changed =>
        LET moved == CycleMove.newBoard
        IN  /\ ContainsWinTile(moved) => gameStatus = "won" /\ board = moved
            /\ ~ContainsWinTile(moved) =>
                  /\ board \in OneTileAdded(moved)
                  /\ gameStatus = "lost" <=> FullAndMergeless(board)
                  /\ gameStatus # "lost" => gameStatus = "playing"

\* A winning cycle: the moved board has room for a tile and none was spawned.
C6_Witness ==
    /\ MoveCycle
    /\ call.changed
    /\ gameStatus = "won"
    /\ board = call.newBoard
    /\ TileCount(board) < BOARD_ROWS * BOARD_COLS

\* C7: won and lost are terminal for moves.  A handleMove request in a
\* state whose status is won or lost leaves the board and the status
\* unchanged; only initGame leaves a terminal status.
C7_TerminalStatusIgnoresMoves ==
    call.statusBefore \in {"won", "lost"} =>
        /\ call.op = "handleMove" =>
              board = call.currentBoard /\ gameStatus = call.statusBefore
        /\ gameStatus # call.statusBefore =>
              call.op = "initGame" /\ gameStatus = "playing"

\* A direction that would slide the won board, given after the win.
C7_Witness ==
    /\ call.op = "handleMove"
    /\ call.statusBefore = "won"
    /\ CycleMove.changed
    /\ board = call.currentBoard
    /\ gameStatus = "won"

\* C8: a direction input whose move yields changed = false is a no-op for
\* the game: board, status and tile count are unchanged and no tile is
\* spawned; a tile appears only after a move that changed the board.
C8_UnchangedMoveIsNoOp ==
    call.op = "handleMove" =>
        /\ MoveCycle /\ ~CycleMove.changed =>
              /\ board = call.currentBoard
              /\ gameStatus = call.statusBefore
              /\ TileCount(board) = TileCount(call.currentBoard)
        /\ board # call.currentBoard => MoveCycle /\ CycleMove.changed

\* A direction that moves nothing on a board with tiles and empty cells.
C8_Witness ==
    /\ MoveCycle
    /\ call.statusBefore = "playing"
    /\ call.moved /\ ~call.changed
    /\ TileCount(call.currentBoard) > 0
    /\ TileCount(call.currentBoard) < BOARD_ROWS * BOARD_COLS
    /\ board = call.currentBoard

PowersOfTwo == {2^k : k \in 1..16}

\* C16: in every state reached from initializeBoard by direction inputs,
\* spawns and New Game, the board has 4 rows of 4 cells and every non-empty
\* cell holds a positive power of two.
C16_BoardIsRectangularPowersOfTwo ==
    board # <<>> =>
        /\ Len(board) = 4
        /\ \A row \in 1..4 :
              /\ Len(board[row]) = 4
              /\ \A col \in 1..4 :
                    board[row][col] = null \/ board[row][col] \in PowersOfTwo

\* A New Game followed by a move that merged two of the initial 2s and
\* spawned a tile.
C16_Witness ==
    /\ steps = 2
    /\ MoveCycle
    /\ call.changed /\ ~call.isNull
    /\ call.currentBoard \in initialBoards
    /\ TileCount(call.newBoard) < TileCount(call.currentBoard)
    /\ TileCount(board) = TileCount(call.newBoard) + 1

\* C23: in every reachable state with an initialised board and status
\* playing, some direction is a valid move: move(board, d).changed is true
\* for at least one of the four directions.
C23_PlayingHasValidMove ==
    board # <<>> /\ gameStatus = "playing" =>
        \E d \in Directions : move(board, d).changed

\* C24: in every reachable state with an initialised board the status is
\* won iff the board holds a 2048 tile, lost iff the board is full with no
\* adjacent equal pair, and playing iff neither holds.
C24_StatusMatchesBoard ==
    board # <<>> =>
        /\ gameStatus = "won" <=> ContainsWinTile(board)
        /\ gameStatus = "lost" <=> FullAndMergeless(board)
        /\ gameStatus = "playing" <=>
              ~ContainsWinTile(board) /\ ~FullAndMergeless(board)

\* A cycle whose spawn filled the board and left an equal pair: the board
\* is full and the game goes on.
C24_Witness ==
    /\ MoveCycle
    /\ call.changed /\ ~call.isNull
    /\ TileCount(board) = BOARD_ROWS * BOARD_COLS
    /\ ~FullAndMergeless(board)
    /\ gameStatus = "playing"

\* C25: whenever the move of a cycle reports changed = true, the moved
\* board has at least one empty cell, so addRandomTile does not return null
\* and the fallback to the moved board is not taken: every board-changing,
\* non-winning cycle spawns exactly one tile.
C25_ChangedMoveLeavesEmptyCell ==
    MoveCycle /\ call.statusBefore = "playing" /\ CycleMove.changed =>
        LET moved == CycleMove.newBoard
        IN  /\ Len(emptyPositions(moved)) >= 1
            /\ ~call.isNull
            /\ ~ContainsWinTile(moved) =>
                  /\ board \in OneTileAdded(moved)
                  /\ board # moved
                  /\ TileCount(board) = TileCount(moved) + 1

\* A cycle on a full board: the merges made room and one tile was spawned.
C25_Witness ==
    /\ MoveCycle
    /\ TileCount(call.currentBoard) = BOARD_ROWS * BOARD_COLS
    /\ call.changed /\ ~call.isNull
    /\ gameStatus = "playing"
    /\ TileCount(board) = TileCount(call.newBoard) + 1

MaxTile(b) ==
    CHOOSE v \in {b[pos[1]][pos[2]] : pos \in Positions} :
        \A pos \in Positions : b[pos[1]][pos[2]] <= v

\* C26: in every reachable state every tile is at most 2048, and in every
\* state with status playing every tile is at most 1024.
C26_NoTileAbove2048 ==
    board # <<>> =>
        /\ \A pos \in Positions : board[pos[1]][pos[2]] <= 2048
        /\ gameStatus = "playing" =>
              \A pos \in Positions : board[pos[1]][pos[2]] <= 1024

\* A cycle that merged two 1024 tiles: the largest tile is 2048 and the
\* game is won.
C26_Witness ==
    /\ MoveCycle
    /\ call.statusBefore = "playing"
    /\ MaxTile(call.currentBoard) = 1024
    /\ MaxTile(board) = 2048
    /\ gameStatus = "won"

\* C27: every board-changing cycle that does not win raises the sum of the
\* tiles by exactly 2 or 4, no direction input lowers it, and while the
\* status is playing the sum is at most 16 tiles of 1024: between two New
\* Games only finitely many board-changing moves can be made.
C27_CycleRaisesTileSum ==
    /\ MoveCycle =>
          /\ TileSum(board) >= TileSum(call.currentBoard)
          /\ call.statusBefore = "playing" /\ CycleMove.changed
                /\ ~ContainsWinTile(CycleMove.newBoard) =>
                   TileSum(board) - TileSum(call.currentBoard) \in {2, 4}
    /\ board # <<>> /\ gameStatus = "playing" =>
          TileSum(board) <= BOARD_ROWS * BOARD_COLS * 1024

\* A cycle that merged a pair and spawned a 4.
C27_Witness ==
    /\ MoveCycle
    /\ call.changed /\ ~call.isNull
    /\ TileCount(call.newBoard) < TileCount(call.currentBoard)
    /\ TileSum(board) = TileSum(call.currentBoard) + 4

----------------------------------------------------------------------------
(* Properties of the game with the AI suggestion, checked under SpecAI     *)

\* C21: the AI suggestion never blocks or alters the game.  Starting a
\* request and every way it can end (a move, an error status, a thrown
\* error) leave the board and the status as they were; a direction input
\* made while a request is pending (for ever, if it is never answered) is
\* handled as handleMove handles it otherwise: ignored when the game is
\* over or the move changes nothing, else the moved board is stored, with
\* status won if it holds 2048 and with one spawned tile if not.
C21_AdvisoryNeverAltersGame ==
    /\ call.op \in {"getAISuggestion", "aiResponse"} =>
          board = call.currentBoard /\ gameStatus = call.statusBefore
    /\ MoveCycle /\ isLoadingAI =>
          IF call.statusBefore # "playing" \/ ~CycleMove.changed
          THEN board = call.currentBoard /\ gameStatus = call.statusBefore
          ELSE LET moved == CycleMove.newBoard
               IN  IF ContainsWinTile(moved)
                   THEN board = moved /\ gameStatus = "won"
                   ELSE /\ TileCount(board) = TileCount(moved) + 1
                        /\ \A pos \in Positions :
                              \/ board[pos[1]][pos[2]] = moved[pos[1]][pos[2]]
                              \/ /\ moved[pos[1]][pos[2]] = null
                                 /\ board[pos[1]][pos[2]] \in {2, 4}
                        /\ gameStatus = IF FullAndMergeless(board) THEN "lost"
                                        ELSE "playing"

\* A direction input that changed the board while the request was pending.
C21_Witness ==
    /\ call.op = "handleMove"
    /\ isLoadingAI /\ fetchRequest.inFlight
    /\ call.changed
    /\ board # call.currentBoard
    /\ fetchRequest.board = call.currentBoard

\* C22: New Game can be taken in every state and results in status
\* playing, a 4x4 board whose tiles are all 2s, no AI suggestion and no AI
\* error.
C22_NewGameResets ==
    /\ steps < MaxSteps => ENABLED NewGame
    /\ call.op = "initGame" =>
          /\ gameStatus = "playing"
          /\ board \in SampleInitialBoards
          /\ Len(board) = 4
          /\ \A row \in 1..4 :
                /\ Len(board[row]) = 4
                /\ \A col \in 1..4 : board[row][col] \in {null, 2}
          /\ aiSuggestion = "null"
          /\ aiError = ""

\* New Game on a lost game with a suggestion on display.
C22_Witness ==
    /\ call.op = "initGame"
    /\ call.statusBefore = "lost"
    /\ call.before.aiSuggestion # "null"
    /\ aiSuggestion = "null"
    /\ gameStatus = "playing"

\* C29: whenever an AI suggestion is on display it was computed for the
\* board that is the game board now: no direction input or New Game between
\* the sending of the board and the answer leaves a suggestion for an
\* earlier board on display.
C29_SuggestionIsForCurrentBoard ==
    aiSuggestion # "null" => fetchRequest.board = board

\* C30: a request that was started and is answered or fails ends with
\* isLoadingAI = false and exactly one outcome recorded: the suggestion set
\* and no error, or an error and no suggestion.  getAISuggestion changes
\* nothing and sends nothing when the status is not playing or the board is
\* not initialised.
C30_RequestBookkeeping ==
    /\ call.op = "aiResponse" =>
          /\ ~isLoadingAI
          /\ ~fetchRequest.inFlight
          /\ \/ aiSuggestion # "null" /\ aiError = ""
             \/ aiSuggestion = "null" /\ aiError # ""
          /\ call.outcome.kind = "ok" <=> aiSuggestion = call.outcome.move
          /\ call.outcome.kind # "ok" /\ call.outcome.message # "" =>
                aiError = call.outcome.message
    /\ call.op = "getAISuggestion" =>
          IF call.statusBefore # "playing" \/ call.currentBoard = <<>>
          THEN AIState = call.before
          ELSE /\ isLoadingAI
               /\ aiSuggestion = "null" /\ aiError = ""
               /\ fetchRequest.inFlight
               /\ fetchRequest.board = call.currentBoard
    /\ isLoadingAI <=> fetchRequest.inFlight

\* An error status without an error text: the default text is recorded.
C30_Witness ==
    /\ call.op = "aiResponse"
    /\ call.outcome.kind = "http"
    /\ call.outcome.message = ""
    /\ aiError = "Failed to get suggestion"
    /\ aiSuggestion = "null"
    /\ ~isLoadingAI

\* getAISuggestion called on a lost game with an error on display.
C30_WitnessIgnored ==
    /\ call.op = "getAISuggestion"
    /\ call.statusBefore = "lost"
    /\ call.before.aiError # ""
    /\ AIState = call.before

====
